---- MODULE Spec2Model ----
(***************************************************************************)
(* Model of the retention engine of limpieza.py: the four backends        *)
(* (local, ssh, sftp, ftp), the per-connection session lifecycle and the  *)
(* aggregation of (archivos_eliminados, archivos_con_error).              *)
(***************************************************************************)
EXTENDS Integers, Sequences, FiniteSets, TLC

(***************************************************************************)
(* Bounds of the model and program constants.                             *)
(***************************************************************************)
MaxConexiones == 2      \* connections in the registry
MaxRutas == 2           \* rules ('rutas') per connection
MaxCorridas == 2        \* invocations of the script on the same backends

DIA == 86400            \* seconds per day, "dias * 86400"
Ahora == 20 * DIA       \* the reading of time.time() during the run

(***************************************************************************)
(* Names are sequences of characters so that fnmatch can be computed.     *)
(***************************************************************************)
ALOG == <<"a", ".", "l", "o", "g">>
BTXT == <<"b", ".", "t", "x", "t">>
CLOG == <<"c", ".", "l", "o", "g">>
SUB == <<"s", "u", "b">>
LOOP == <<"l", "o", "o", "p">>
DirX == <<"x">>
DirNX == <<"n", "x">>
MascaraLog == <<"*", ".", "l", "o", "g">>
SinMascara == <<>>

\* fnmatch.fnmatch(nombre, patron) on POSIX: '*' any run, '?' any one
\* character, anything else literally (case-sensitive).
RECURSIVE fnmatch(_, _)
fnmatch(nombre, patron) ==
    IF patron = <<>> THEN nombre = <<>>
    ELSE IF Head(patron) = "*"
         THEN \/ fnmatch(nombre, Tail(patron))
              \/ (nombre # <<>> /\ fnmatch(Tail(nombre), patron))
    ELSE IF nombre = <<>> THEN FALSE
    ELSE /\ (Head(patron) = "?" \/ Head(patron) = Head(nombre))
         /\ fnmatch(Tail(nombre), Tail(patron))

\* "if mascara and not fnmatch.fnmatch(file, mascara): continue"
PasaMascara(nombre, mascara) == mascara = <<>> \/ fnmatch(nombre, mascara)

(***************************************************************************)
(* The file system of one backend: a set of entries.  ruta is the         *)
(* sequence of names from the root; borrable says whether the backend     *)
(* lets this entry be removed; listable whether listing it succeeds       *)
(* (never for a file).  An entry of clase "link" is a symbolic link to    *)
(* the directory destino.  fechable says whether a query for the          *)
(* modification time of the entry is answered; fugaz whether another      *)
(* actor removes the file once this run has found it old enough, before   *)
(* its Delete is issued; campos is the number of blank-separated fields   *)
(* of the entry's line in an FTP LIST reply (9 in the usual format, for   *)
(* a name without blanks).                                                *)
(***************************************************************************)
Nombre(e) == e.ruta[Len(e.ruta)]

EsPrefijo(p, r) == Len(p) <= Len(r) /\ SubSeq(r, 1, Len(p)) = p

Existe(fs, ruta) == \E e \in fs : e.ruta = ruta

EsDir(fs, ruta) == \E e \in fs : e.ruta = ruta /\ e.clase = "dir"

SePuedeListar(fs, ruta) ==
    \E e \in fs : e.ruta = ruta /\ e.clase = "dir" /\ e.listable

Hijos(fs, ruta) ==
    {e \in fs : Len(e.ruta) = Len(ruta) + 1 /\ EsPrefijo(ruta, e.ruta)}

\* The directories strictly between ruta (included) and the entry e.
Ancestros(e, ruta) ==
    {SubSeq(e.ruta, 1, n) : n \in Len(ruta)..(Len(e.ruta) - 1)}

\* A fixed enumeration order of a set of entries (the order of a listing
\* is backend-defined).
RECURSIVE EnOrden(_)
EnOrden(S) ==
    IF S = {} THEN <<>>
    ELSE LET e == CHOOSE x \in S : \A y \in S : Len(x.ruta) <= Len(y.ruta)
         IN  <<e>> \o EnOrden(S \ {e})

\* One native operation issued to a backend; sudo tells whether it is a
\* shell command that carried the prefix "sudo ".
Op(op, ruta, ok) == [op |-> op, ruta |-> ruta, ok |-> ok, sudo |-> FALSE]

\* The running state of a traversal: the file system, the two counters,
\* the operations issued and the warnings logged so far, the working
\* directory of the session, the directories whose listing is being
\* processed (the frames of the recursion) and whether the recursion has
\* come back to one of them.  comando_sudo is the prefix of the shell
\* commands of eliminar_archivos_ssh: TRUE for "sudo ", FALSE for "".
Estado(fs, elim, err, cwd) ==
    [fs |-> fs, elim |-> elim, err |-> err, ops |-> <<>>, avisos |-> <<>>,
     cwd |-> cwd, pila |-> {}, ciclo |-> FALSE, comando_sudo |-> FALSE]

\* "comando_sudo = "sudo " if necesita_sudo else """
ConSudo(st, necesita_sudo) == [st EXCEPT !.comando_sudo = necesita_sudo]

Anota(st, op) == [st EXCEPT !.ops = Append(@, op)]

\* logging.warning
Aviso(st, aviso, ruta) ==
    [st EXCEPT !.avisos = Append(@, [aviso |-> aviso, ruta |-> ruta])]
EliminadoSinQuitar(st, e, op) ==
    [st EXCEPT !.elim = @ + 1, !.ops = Append(@, op)]
Eliminado(st, e, op) ==
    [st EXCEPT !.fs = @ \ {e}, !.elim = @ + 1, !.ops = Append(@, op)]
ConError(st) == [st EXCEPT !.err = @ + 1]

\* Another actor removes the entry e.
Desaparece(st, e) == [st EXCEPT !.fs = @ \ {e}]

\* "limite_tiempo = time.time() - (dias * 86400)"
LimiteTiempo(dias) == Ahora - (dias * DIA)

\* "if mtime < limite_tiempo"
EsAntiguo(mtime, limite_tiempo) == mtime < limite_tiempo

(***************************************************************************)
(* eliminar_archivos_locales: os.walk over ruta_base.  os.walk is called  *)
(* without onerror, so a directory that cannot be scanned (missing or     *)
(* unreadable) yields nothing and raises nothing; followlinks is off, so  *)
(* a symbolic link to a directory is reported in dirs and not walked.     *)
(***************************************************************************)
\* body of "for file in files"
LocalArchivo(st, e, limite_tiempo, mascara) ==
    IF ~PasaMascara(Nombre(e), mascara) THEN st
    ELSE IF ~e.fechable
    THEN ConError(Anota(st, Op("mtime", e.ruta, FALSE)))
    ELSE LET s1 == Anota(st, Op("mtime", e.ruta, TRUE))
         IN  IF EsAntiguo(e.mtime, limite_tiempo)
             THEN IF e.fugaz
                  THEN ConError(Desaparece(
                           Anota(s1, Op("delete", e.ruta, FALSE)), e))
                  ELSE IF e.borrable
                  THEN Eliminado(s1, e, Op("delete", e.ruta, TRUE))
                  ELSE ConError(Anota(s1, Op("delete", e.ruta, FALSE)))
             ELSE s1

RECURSIVE LocalArchivos(_, _, _, _)
LocalArchivos(st, es, limite_tiempo, mascara) ==
    IF es = <<>> THEN st
    ELSE LocalArchivos(LocalArchivo(st, Head(es), limite_tiempo, mascara),
                       Tail(es), limite_tiempo, mascara)

RECURSIVE OsWalk(_, _, _, _)
RECURSIVE OsWalkDirs(_, _, _, _)
OsWalk(st, ruta, limite_tiempo, mascara) ==
    IF ~SePuedeListar(st.fs, ruta)
    THEN Anota(st, Op("list", ruta, FALSE))
    ELSE LET hijos == Hijos(st.fs, ruta)
             files == EnOrden({e \in hijos : e.clase = "file"})
             dirs == EnOrden({e \in hijos : e.clase = "dir"})
             s1 == Anota(st, Op("list", ruta, TRUE))
             s2 == LocalArchivos(s1, files, limite_tiempo, mascara)
         IN  OsWalkDirs(s2, dirs, limite_tiempo, mascara)
OsWalkDirs(st, ds, limite_tiempo, mascara) ==
    IF ds = <<>> THEN st
    ELSE OsWalkDirs(OsWalk(st, Head(ds).ruta, limite_tiempo, mascara),
                    Tail(ds), limite_tiempo, mascara)

eliminar_archivos_locales(st, regla) ==
    OsWalk(st, regla.ruta, LimiteTiempo(regla.dias), regla.mascara)

(***************************************************************************)
(* eliminar_archivos_ssh: the body of "for ruta_config in                 *)
(* conexion['rutas']".  ejecutar_comando_ssh returns (salida, errores,    *)
(* estado) and never raises.                                              *)
(***************************************************************************)
\* "ls {ruta}": exit status 0 iff the path exists and can be read.
ComandoLs(fs, ruta) ==
    IF Existe(fs, ruta) /\ (~EsDir(fs, ruta) \/ SePuedeListar(fs, ruta))
    THEN 0 ELSE 1

\* "-mtime +{dias}": find drops the fraction of the age in days and keeps
\* the file when the whole number of days is greater than dias.
MtimeMas(mtime, dias) == ((Ahora - mtime) \div DIA) > dias

\* "find {ruta} -type f [-name '{mascara}'] -mtime +{dias} -print": the
\* regular files below ruta that find can reach.
ComandoFind(fs, ruta, mascara, dias) ==
    {e \in fs : /\ e.clase = "file"
                /\ EsPrefijo(ruta, e.ruta) /\ e.ruta # ruta
                /\ \A d \in Ancestros(e, ruta) : SePuedeListar(fs, d)
                /\ PasaMascara(Nombre(e), mascara)
                /\ MtimeMas(e.mtime, dias)}

\* The exit status of that find: 1 when a directory it reaches cannot be
\* read ("Permission denied"), 0 otherwise.
EstadoFind(fs, ruta) ==
    IF \E d \in fs : /\ d.clase = "dir" /\ ~d.listable
                     /\ EsPrefijo(ruta, d.ruta)
                     /\ \A a \in Ancestros(d, ruta) : SePuedeListar(fs, a)
    THEN 1 ELSE 0

\* A command of eliminar_archivos_ssh: "{comando_sudo}ls ...",
\* "{comando_sudo}find ...", "{comando_sudo}rm -f ...".
Comando(st, op, ruta, ok) ==
    [Op(op, ruta, ok) EXCEPT !.sudo = st.comando_sudo]

\* ejecutar_comando_ssh logs a warning when the exit status is not 0.
ComandoFallido(st, op, ruta) ==
    Aviso(Anota(st, Comando(st, op, ruta, FALSE)), "comando", ruta)

\* find prints one path per line; "salida.split('\n')" gives its lines,
\* and one empty line when there is no output.
Salida(es) == [n \in 1..Len(es) |-> es[n].ruta]
Lineas(salida) == IF salida = <<>> THEN << <<>> >> ELSE salida

\* "[archivo for archivo in ... if archivo.strip()]"
SinFiltrar(lineas) == lineas
NoVacias(lineas) == SelectSeq(lineas, LAMBDA l : l # <<>>)

\* The file system when the rm of archivo runs: a file that another actor
\* removes after find has printed it is gone by then.
AntesDeRm(st, archivo) ==
    [st EXCEPT !.fs = {x \in @ : ~(x.ruta = archivo /\ x.fugaz)}]

\* body of "for archivo in archivos_a_eliminar": "rm -f '{archivo}'".
\* With -f, rm ends with status 0 when there is nothing at the path.
SshEliminarSinSudo(st, archivo) ==
    LET s0 == AntesDeRm(st, archivo)
    IN  IF ~Existe(s0.fs, archivo)
        THEN [Anota(s0, Op("delete", archivo, TRUE)) EXCEPT !.elim = @ + 1]
        ELSE LET e == CHOOSE x \in s0.fs : x.ruta = archivo
             IN  IF e.borrable
                 THEN Eliminado(s0, e, Op("delete", archivo, TRUE))
                 ELSE ConError(Aviso(Anota(s0, Op("delete", archivo, FALSE)),
                                     "comando", archivo))
SshEliminar(st, archivo) ==
    LET s0 == AntesDeRm(st, archivo)
    IN  IF ~Existe(s0.fs, archivo)
        THEN [Anota(s0, Comando(s0, "delete", archivo, TRUE))
                 EXCEPT !.elim = @ + 1]
        ELSE LET e == CHOOSE x \in s0.fs : x.ruta = archivo
             IN  IF e.borrable
                 THEN Eliminado(s0, e, Comando(s0, "delete", archivo, TRUE))
                 ELSE ConError(ComandoFallido(s0, "delete", archivo))

RECURSIVE SshEliminarTodos(_, _)
SshEliminarTodos(st, archivos) ==
    IF archivos = <<>> THEN st
    ELSE SshEliminarTodos(SshEliminar(st, Head(archivos)), Tail(archivos))

\* A find that ends with a status other than 0 is logged ("Error buscando
\* archivos") and its output is used all the same.
SshRuta(st, regla) ==
    IF ComandoLs(st.fs, regla.ruta) # 0
    THEN ConError(ComandoFallido(st, "probe", regla.ruta))
    ELSE LET s1 == Anota(st, Comando(st, "probe", regla.ruta, TRUE))
             salida ==
                 Salida(EnOrden(ComandoFind(s1.fs, regla.ruta, regla.mascara,
                                            regla.dias)))
             archivos_a_eliminar == NoVacias(Lineas(salida))
             s2 == IF EstadoFind(s1.fs, regla.ruta) = 0
                   THEN Anota(s1, Comando(s1, "find", regla.ruta, TRUE))
                   ELSE ComandoFallido(s1, "find", regla.ruta)
         IN  SshEliminarTodos(s2, archivos_a_eliminar)

(***************************************************************************)
(* eliminar_archivos_sftp: procesar_directorio_sftp and the body of the   *)
(* loop over the rules.  An entry is taken for a directory when           *)
(* sftp.listdir on it succeeds, and for a file when it raises.  The       *)
(* server follows a symbolic link, so listing a link lists its target.    *)
(* Nothing in the code stops the recursion from entering a directory      *)
(* whose listing is still being processed: when that happens the same     *)
(* calls repeat from there, and the model records it in ciclo instead of  *)
(* unfolding them.                                                        *)
(***************************************************************************)
\* The directory that a listing of the entry e reads.
Destino(e) == IF e.clase = "link" THEN e.destino ELSE e.ruta

\* the "except:" branch of the loop body of procesar_directorio_sftp
SftpArchivo(st, e, limite_tiempo, mascara) ==
    IF ~PasaMascara(Nombre(e), mascara) THEN st
    ELSE IF EsAntiguo(e.mtime, limite_tiempo)
         THEN IF e.fugaz
              THEN ConError(Desaparece(
                       Anota(st, Op("delete", e.ruta, FALSE)), e))
              ELSE IF e.borrable
              THEN Eliminado(st, e, Op("delete", e.ruta, TRUE))
              ELSE ConError(Anota(st, Op("delete", e.ruta, FALSE)))
         ELSE st

RECURSIVE procesar_directorio_sftp(_, _, _, _)
RECURSIVE SftpEntradas(_, _, _, _)
procesar_directorio_sftp(st, ruta_remota, limite_tiempo, mascara) ==
    IF ~SePuedeListar(st.fs, ruta_remota)
    THEN ConError(Anota(st, Op("list", ruta_remota, FALSE)))
    ELSE LET s1 == [Anota(st, Op("list", ruta_remota, TRUE))
                       EXCEPT !.pila = @ \cup {ruta_remota}]
             s2 == SftpEntradas(s1, EnOrden(Hijos(st.fs, ruta_remota)),
                                limite_tiempo, mascara)
         IN  [s2 EXCEPT !.pila = st.pila]
SftpEntradas(st, es, limite_tiempo, mascara) ==
    IF es = <<>> \/ st.ciclo THEN st
    ELSE LET e == Head(es)
             s1 == IF SePuedeListar(st.fs, Destino(e))
                   THEN IF Destino(e) \in st.pila
                        THEN [Anota(st, Op("list", e.ruta, TRUE))
                                 EXCEPT !.ciclo = TRUE]
                        ELSE procesar_directorio_sftp(
                                 Anota(st, Op("list", e.ruta, TRUE)),
                                 Destino(e), limite_tiempo, mascara)
                   ELSE SftpArchivo(Anota(st, Op("list", e.ruta, FALSE)),
                                    e, limite_tiempo, mascara)
         IN  SftpEntradas(s1, Tail(es), limite_tiempo, mascara)

SftpRuta(st, regla) ==
    IF ~SePuedeListar(st.fs, regla.ruta)
    THEN ConError(Anota(st, Op("probe", regla.ruta, FALSE)))
    ELSE procesar_directorio_sftp(Anota(st, Op("probe", regla.ruta, TRUE)),
                                  regla.ruta, LimiteTiempo(regla.dias),
                                  regla.mascara)

(***************************************************************************)
(* eliminar_archivos_ftp: procesar_directorio_ftp and the body of the     *)
(* loop over the rules.  A LIST of a directory that cannot be read is     *)
(* answered with an error reply, which ftp.retrlines raises.              *)
(***************************************************************************)
\* The reply to "MDTM": the modification time as a UTC calendar time,
\* held here as the count of seconds that calendar time stands for.
MDTM(e) == e.mtime

\* "time.mktime(time.strptime(mtime_str, '%Y%m%d%H%M%S'))": mktime reads
\* the calendar time as local time; zona is the client's offset from UTC
\* in seconds.
mktime(mtime_str, zona) == mtime_str - zona

\* A path as text: "/x/sub".
RECURSIVE RutaTexto(_)
RutaTexto(ruta) ==
    IF ruta = <<>> THEN <<>>
    ELSE <<"/">> \o Head(ruta) \o RutaTexto(Tail(ruta))

\* "nombre = ' '.join(partes[8:])": the ninth field of the LIST line and
\* what follows it; the line of a symbolic link reads "loop -> /x".
NombreEnLista(e) ==
    IF e.clase = "link"
    THEN Nombre(e) \o <<" ", "-", ">", " ">> \o RutaTexto(e.destino)
    ELSE Nombre(e)

\* the "else" branch of the loop body of procesar_directorio_ftp; a
\* refused delete is a 550 reply (ftplib.error_perm), which the handler
\* "except ftplib.error_perm" only logs as a warning, and so is the reply
\* to MDTM for a name that does not exist (the text of a link's line) or
\* for a file whose time the server does not give.
FtpArchivo(st, e, limite_tiempo, mascara, zona) ==
    IF ~PasaMascara(NombreEnLista(e), mascara) THEN st
    ELSE IF e.clase = "link" \/ ~e.fechable
    THEN Aviso(Anota(st, Op("mtime", e.ruta, FALSE)), "ftp_perm", e.ruta)
    ELSE LET s1 == Anota(st, Op("mtime", e.ruta, TRUE))
             mtime == mktime(MDTM(e), zona)
         IN  IF EsAntiguo(mtime, limite_tiempo)
             THEN IF e.fugaz
                  THEN Aviso(Desaparece(
                                 Anota(s1, Op("delete", e.ruta, FALSE)), e),
                             "ftp_perm", e.ruta)
                  ELSE IF e.borrable
                  THEN Eliminado(s1, e, Op("delete", e.ruta, TRUE))
                  ELSE Aviso(Anota(s1, Op("delete", e.ruta, FALSE)),
                             "ftp_perm", e.ruta)
             ELSE s1

RECURSIVE procesar_directorio_ftp(_, _, _, _, _)
RECURSIVE FtpLineas(_, _, _, _, _)
procesar_directorio_ftp(st, path, limite_tiempo, mascara, zona) ==
    IF ~SePuedeListar(st.fs, path)
    THEN ConError(Anota(st, Op("list", path, FALSE)))
    ELSE FtpLineas(Anota(st, Op("list", path, TRUE)),
                   EnOrden(Hijos(st.fs, path)), limite_tiempo, mascara, zona)
FtpLineas(st, es, limite_tiempo, mascara, zona) ==
    IF es = <<>> THEN st
    ELSE LET e == Head(es)
             s1 == IF e.campos < 9
                   THEN st
                   ELSE IF e.clase = "dir"
                   THEN procesar_directorio_ftp(st, e.ruta, limite_tiempo,
                                                mascara, zona)
                   ELSE FtpArchivo(st, e, limite_tiempo, mascara, zona)
         IN  FtpLineas(s1, Tail(es), limite_tiempo, mascara, zona)

\* "ftp.cwd(ruta)" moves the working directory of the session to the
\* rule's path (the paths of the rules are absolute), and the listing
\* starts from there; nothing moves it back.
FtpRuta(st, regla, zona) ==
    IF ~EsDir(st.fs, regla.ruta)
    THEN ConError(Anota(st, Op("probe", regla.ruta, FALSE)))
    ELSE procesar_directorio_ftp(
             [Anota(st, Op("probe", regla.ruta, TRUE))
                 EXCEPT !.cwd = regla.ruta],
             regla.ruta, LimiteTiempo(regla.dias), regla.mascara, zona)

\* The processing of one rule by the backend of kind tipo.
ProcesarRegla(tipo, st, regla, zona) ==
    CASE tipo = "local" -> eliminar_archivos_locales(st, regla)
      [] tipo = "ssh" -> SshRuta(st, regla)
      [] tipo = "sftp" -> SftpRuta(st, regla)
      [] tipo = "ftp" -> FtpRuta(st, regla, zona)

(***************************************************************************)
(* The state of a run of eliminar_archivos_antiguos.                      *)
(***************************************************************************)
VARIABLES
    conexiones,   \* the registry: a sequence of [tipo, necesita_sudo, rutas]
    acceso,       \* per connection, how its backend answers Connect and
                  \* the closing command
    zona,         \* offset of the client's local time from UTC, seconds
    fs,           \* per connection, the file system of its backend
    fs0,          \* fs as it was when the current run started
    corrida,      \* number of the current run of the script
    pc,           \* "inicio", "abortado", "conexion", "rutas", "retorno",
                  \* "fin" or "recursion"
    i,            \* index of the connection being processed
    j,            \* index of the next rule of connection i
    sesion,       \* per connection: "ninguna", "abierta" or "cerrada"
    cierres,      \* per connection, number of close calls
    acum,         \* (archivos_eliminados_totales, archivos_con_error_totales)
                  \* of the connection being processed
    por_ruta,     \* (eliminados_ruta, errores_ruta) of its rules so far
    resultados,   \* what procesar_conexion returned, per connection
    total,        \* the totals of eliminar_archivos_antiguos
    ops,          \* the native operations issued in the current run
    avisos,       \* the warnings logged in the current run
    cwd,          \* per connection, the working directory of its session
                  \* relative to the login directory (<<>>)
    previas,      \* the totals of the runs before the current one
    PARAMIKO_DISPONIBLE,
                  \* whether "import paramiko" succeeded
    totales27,    \* limpieza_2.7.py on the same inputs: the locals
                  \* archivos_eliminados_totales, archivos_con_error_totales
                  \* of the connection being processed
    resultados27  \* limpieza_2.7.py: what procesar_conexion returned

vars == <<conexiones, acceso, zona, fs, fs0, corrida, pc, i, j, sesion,
          cierres, acum, por_ruta, resultados, total, ops, avisos, cwd,
          previas, PARAMIKO_DISPONIBLE, totales27, resultados27>>

Tipos == {"local", "ssh", "sftp", "ftp"}
Remotos == {"ssh", "sftp", "ftp"}

\* Connect answers: it succeeds ("ok"), it fails before any transport
\* exists ("red": refused, timeout), or it fails in authentication, after
\* the transport (socket) to the server was opened ("auth").  With "cae"
\* Connect and the rules are answered and the final QUIT of an FTP session
\* is not (the server has dropped the control connection): ftp.quit()
\* raises.
Accesos == {"ok", "red", "auth", "cae"}

Regla(ruta, dias, mascara) == [ruta |-> ruta, dias |-> dias, mascara |-> mascara]

\* A rule without the key 'dias': SinDias stands for the missing value.
SinDias == -1
ReglaIncompleta(ruta) == Regla(ruta, SinDias, SinMascara)

Dir(ruta, listable) ==
    [ruta |-> ruta, clase |-> "dir", mtime |-> Ahora - 10 * DIA,
     borrable |-> FALSE, listable |-> listable, destino |-> <<>>,
     fechable |-> TRUE, fugaz |-> FALSE, campos |-> 9]
Archivo(ruta, edad, borrable) ==
    [ruta |-> ruta, clase |-> "file", mtime |-> Ahora - edad,
     borrable |-> borrable, listable |-> FALSE, destino |-> <<>>,
     fechable |-> TRUE, fugaz |-> FALSE, campos |-> 9]
Enlace(ruta, destino) ==
    [ruta |-> ruta, clase |-> "link", mtime |-> Ahora - 10 * DIA,
     borrable |-> FALSE, listable |-> FALSE, destino |-> destino,
     fechable |-> TRUE, fugaz |-> FALSE, campos |-> 11]

\* What can be wrong with a file: nothing ("ok"), it cannot be removed
\* ("fija"), another actor removes it first ("fugaz"), its modification
\* time cannot be queried ("sinfecha"), or its LIST line has 8 fields
\* ("corta").
Condiciones == {"ok", "fija", "fugaz", "sinfecha", "corta"}
ArchivoCon(ruta, edad, condicion) ==
    [Archivo(ruta, edad, condicion # "fija")
        EXCEPT !.fugaz = (condicion = "fugaz"),
               !.fechable = (condicion # "sinfecha"),
               !.campos = IF condicion = "corta" THEN 8 ELSE 9]

\* /x/a.log, /x/b.txt, /x/sub/c.log and, with lazo, /x/sub/loop -> /x
Arbol(edadA, edadC, condicionB, listableSub, lazo) ==
    { Dir(<<DirX>>, TRUE),
      Archivo(<<DirX, ALOG>>, edadA, TRUE),
      ArchivoCon(<<DirX, BTXT>>, 4 * DIA, condicionB),
      Dir(<<DirX, SUB>>, listableSub),
      Archivo(<<DirX, SUB, CLOG>>, edadC, TRUE) }
    \cup (IF lazo THEN {Enlace(<<DirX, SUB, LOOP>>, <<DirX>>)} ELSE {})

EdadesA == {4 * DIA, 3 * DIA + DIA \div 2, 3 * DIA, 3 * DIA - 1800}
EdadesC == {4 * DIA, DIA \div 2, 0, -60}
Zonas == {0, 3600}

Arboles ==
    {Arbol(a, c, b, l, z) : a \in EdadesA, c \in EdadesC,
                            b \in Condiciones, l \in BOOLEAN, z \in BOOLEAN}
ArbolBase == Arbol(4 * DIA, DIA \div 2, "ok", TRUE, FALSE)
ArbolesRegistro ==
    {ArbolBase, Arbol(3 * DIA + DIA \div 2, DIA \div 2, "ok", TRUE, FALSE)}

ReglasArbol ==
    {Regla(<<DirX>>, 3, SinMascara), Regla(<<DirX>>, 3, MascaraLog),
     Regla(<<DirX>>, 0, SinMascara)}
ReglasRegistro ==
    {Regla(<<DirX>>, 3, SinMascara), Regla(<<DirNX>>, 3, SinMascara)}

Cero == [elim |-> 0, err |-> 0]

InitComun ==
    /\ fs0 = fs
    /\ corrida = 1
    /\ pc = "inicio"
    /\ i = 1
    /\ j = 1
    /\ totales27 = Cero
    /\ resultados27 = <<>>
    /\ sesion = [k \in DOMAIN conexiones |-> "ninguna"]
    /\ cierres = [k \in DOMAIN conexiones |-> 0]
    /\ acum = Cero
    /\ por_ruta = <<>>
    /\ resultados = <<>>
    /\ total = Cero
    /\ ops = <<>>
    /\ avisos = <<>>
    /\ cwd = [k \in DOMAIN conexiones |-> <<>>]
    /\ previas = <<>>

\* One connection with one rule, over every tree and, for ftp, the only
\* backend that converts a time of the server, every time zone.
InitArbol ==
    /\ \E t \in Tipos, r \in ReglasArbol, sudo \in BOOLEAN :
           /\ conexiones = <<[tipo |-> t, necesita_sudo |-> sudo,
                              rutas |-> <<r>>]>>
           /\ zona \in IF t = "ftp" THEN Zonas ELSE {0}
    /\ acceso = <<"ok">>
    /\ \E a \in Arboles : fs = <<a>>
    /\ PARAMIKO_DISPONIBLE = TRUE
    /\ InitComun

\* A registry of up to MaxConexiones connections, each with the same list
\* of up to MaxRutas rules and its own copy of the same tree.  At most one
\* of its backends fails, and then the tree is ArbolBase.
InitRegistro ==
    /\ \E n \in 1..MaxConexiones, m \in 1..MaxRutas :
         \E ts \in [1..n -> Tipos], rs \in [1..m -> ReglasRegistro],
            a \in ArbolesRegistro :
              /\ conexiones = [k \in 1..n |->
                                  [tipo |-> ts[k], necesita_sudo |-> FALSE,
                                   rutas |-> rs]]
              /\ acceso \in [1..n -> Accesos]
              /\ \A k \in 1..n : ts[k] = "local" => acceso[k] = "ok"
              /\ \A k \in 1..n : acceso[k] = "cae" => ts[k] = "ftp"
              /\ Cardinality({k \in 1..n : acceso[k] # "ok"}) <= 1
              /\ (\E k \in 1..n : acceso[k] # "ok") => a = ArbolBase
              /\ fs = [k \in 1..n |-> a]
    /\ zona = 0
    /\ PARAMIKO_DISPONIBLE = TRUE
    /\ InitComun

\* One connection whose second rule has no key 'dias'.
InitIncompleta ==
    /\ \E t \in Tipos, r \in ReglasRegistro :
           conexiones = <<[tipo |-> t, necesita_sudo |-> FALSE,
                           rutas |-> <<r, ReglaIncompleta(<<DirX>>)>>]>>
    /\ acceso = <<"ok">>
    /\ zona = 0
    /\ \E a \in ArbolesRegistro : fs = <<a>>
    /\ PARAMIKO_DISPONIBLE = TRUE
    /\ InitComun

\* A registry read where paramiko is not installed.
InitSinParamiko ==
    /\ \E n \in 1..MaxConexiones :
         \E ts \in [1..n -> Tipos], a \in ArbolesRegistro :
              /\ conexiones = [k \in 1..n |->
                                  [tipo |-> ts[k], necesita_sudo |-> FALSE,
                                   rutas |-> <<Regla(<<DirX>>, 3,
                                                     SinMascara)>>]]
              /\ acceso = [k \in 1..n |-> "ok"]
              /\ fs = [k \in 1..n |-> a]
    /\ zona = 0
    /\ PARAMIKO_DISPONIBLE = FALSE
    /\ InitComun

Init == InitArbol \/ InitRegistro \/ InitIncompleta \/ InitSinParamiko

conexion == conexiones[i]

(***************************************************************************)
(* procesar_conexion and the eliminar_archivos_* functions, step by step. *)
(***************************************************************************)
\* The handlers "except paramiko.AuthenticationException", "except
\* paramiko.SSHException", "except ftplib.all_errors" and "except
\* Exception" of eliminar_archivos_ssh/sftp/ftp: every rule is counted as
\* an error and the function returns.
ManejarErrorConexionAborta ==
    /\ acum' = [acum EXCEPT !.err = @ + Len(conexion.rutas)]
    /\ pc' = "fin"
ManejarErrorConexionUno ==
    /\ acum' = [acum EXCEPT !.err = @ + 1]
    /\ pc' = "retorno"
ManejarErrorConexion ==
    /\ acum' = [acum EXCEPT !.err = @ + Len(conexion.rutas)]
    /\ pc' = "retorno"

\* verificar_dependencias and the test of its result in
\* eliminar_archivos_antiguos: the run is abandoned before the totals
\* exist when a connection needs paramiko and it is missing.
necesita_paramiko ==
    \E k \in DOMAIN conexiones : conexiones[k].tipo \in {"ssh", "sftp"}
VerificarDependenciasSiempre ==
    /\ pc = "inicio"
    /\ pc' = "conexion"
    /\ UNCHANGED <<conexiones, acceso, zona, fs, fs0, corrida, i, j, sesion,
                   cierres, acum, por_ruta, resultados, total, ops, avisos,
                   cwd, previas, PARAMIKO_DISPONIBLE, totales27,
                   resultados27>>
VerificarDependencias ==
    /\ pc = "inicio"
    /\ pc' = IF necesita_paramiko /\ ~PARAMIKO_DISPONIBLE
             THEN "abortado"
             ELSE "conexion"
    /\ UNCHANGED <<conexiones, acceso, zona, fs, fs0, corrida, i, j, sesion,
                   cierres, acum, por_ruta, resultados, total, ops, avisos,
                   cwd, previas, PARAMIKO_DISPONIBLE, totales27,
                   resultados27>>

\* "if not PARAMIKO_DISPONIBLE: return 0, 1" at the top of
\* eliminar_archivos_ssh and eliminar_archivos_sftp, then
\* cliente_ssh.connect / transporte.connect / ftp.connect + ftp.login
Conectar ==
    /\ pc = "conexion"
    /\ conexion.tipo \in Remotos
    /\ IF conexion.tipo \in {"ssh", "sftp"} /\ ~PARAMIKO_DISPONIBLE
       THEN /\ acum' = [elim |-> 0, err |-> 1]
            /\ totales27' = [elim |-> 0, err |-> 1]
            /\ pc' = "retorno"
            /\ UNCHANGED <<ops, sesion>>
       ELSE /\ ops' = Append(ops, [c |-> i, r |-> 0, op |-> "connect",
                                   ruta |-> <<>>,
                                   ok |-> acceso[i] \in {"ok", "cae"},
                                   sudo |-> FALSE])
            /\ IF acceso[i] \in {"ok", "cae"}
               THEN /\ sesion' = [sesion EXCEPT ![i] = "abierta"]
                    /\ pc' = "rutas"
                    /\ acum' = acum
                    /\ totales27' = totales27
               ELSE /\ sesion' = [sesion EXCEPT ![i] =
                                     IF acceso[i] = "auth" THEN "abierta"
                                     ELSE @]
                    /\ ManejarErrorConexion
                    /\ totales27' = [totales27 EXCEPT
                                        !.err = @ + Len(conexion.rutas)]
    /\ UNCHANGED <<conexiones, acceso, zona, fs, fs0, corrida, i, j, cierres,
                   por_ruta, resultados, total, avisos, cwd, previas,
                   PARAMIKO_DISPONIBLE, resultados27>>

\* procesar_conexion, tipo 'local': there is nothing to connect to.
IniciarLocal ==
    /\ pc = "conexion"
    /\ conexion.tipo = "local"
    /\ pc' = "rutas"
    /\ UNCHANGED <<conexiones, acceso, zona, fs, fs0, corrida, i, j, sesion,
                   cierres, acum, por_ruta, resultados, total, ops, avisos,
                   cwd, previas, PARAMIKO_DISPONIBLE, totales27,
                   resultados27>>

\* The operations of rule r of connection c, as entries of ops.
EtiquetarReconecta(c, r, s) ==
    (IF r > 1
     THEN <<[c |-> c, r |-> 0, op |-> "connect", ruta |-> <<>>, ok |-> TRUE,
             sudo |-> FALSE]>>
     ELSE <<>>)
    \o [n \in 1..Len(s) |-> [c |-> c, r |-> r, op |-> s[n].op,
                             ruta |-> s[n].ruta, ok |-> s[n].ok,
                             sudo |-> s[n].sudo]]
Etiquetar(c, r, s) ==
    [n \in 1..Len(s) |-> [c |-> c, r |-> r, op |-> s[n].op,
                          ruta |-> s[n].ruta, ok |-> s[n].ok,
                          sudo |-> s[n].sudo]]

\* The warnings of rule r of connection c, as entries of avisos.
EtiquetarAvisos(c, r, s) ==
    [n \in 1..Len(s) |-> [c |-> c, r |-> r, aviso |-> s[n].aviso,
                          ruta |-> s[n].ruta]]

\* One iteration of "for ruta_config in conexion['rutas']".  The local
\* backend counts from zero for each rule and procesar_conexion adds the
\* pair; the remote ones count on the totals of the connection.  A
\* traversal that has come back to a directory it is still processing is
\* followed no further ("recursion"): what ends it is not in the code.
\* limpieza_2.7.py counts the sftp and ftp rules in the list "contadores"
\* and leaves its two locals alone until the loop is over.
ProcesarRuta ==
    /\ pc = "rutas"
    /\ j <= Len(conexion.rutas)
    /\ conexion.rutas[j].dias # SinDias
    /\ LET antes == IF conexion.tipo = "local" THEN Cero ELSE acum
           r == ProcesarRegla(conexion.tipo,
                              ConSudo(Estado(fs[i], antes.elim, antes.err,
                                             cwd[i]),
                                      conexion.tipo = "ssh"
                                          /\ conexion.necesita_sudo),
                              conexion.rutas[j], zona)
           eliminados_ruta == r.elim - antes.elim
           errores_ruta == r.err - antes.err
       IN  /\ fs' = [fs EXCEPT ![i] = r.fs]
           /\ acum' = [elim |-> acum.elim + eliminados_ruta,
                       err |-> acum.err + errores_ruta]
           /\ por_ruta' = Append(por_ruta, [elim |-> eliminados_ruta,
                                            err |-> errores_ruta])
           /\ ops' = ops \o Etiquetar(i, j, r.ops)
           /\ avisos' = avisos \o EtiquetarAvisos(i, j, r.avisos)
           /\ cwd' = [cwd EXCEPT ![i] = r.cwd]
           /\ pc' = IF r.ciclo THEN "recursion" ELSE pc
           /\ totales27' = IF conexion.tipo \in {"sftp", "ftp"}
                           THEN totales27
                           ELSE [elim |-> acum.elim + eliminados_ruta,
                                 err |-> acum.err + errores_ruta]
    /\ j' = j + 1
    /\ UNCHANGED <<conexiones, acceso, zona, fs0, corrida, i, sesion,
                   cierres, resultados, total, previas, PARAMIKO_DISPONIBLE,
                   resultados27>>

\* "dias = ruta_config['dias']" raises KeyError on a rule without that
\* key.  The statement is outside the "try" of the rule: in the remote
\* backends the exception ends the loop in the handler "except Exception"
\* of the function, which skips the closing calls; in the local one it
\* ends in the handler of procesar_conexion, which returns
\* (0, len(rutas)).  limpieza_2.7.py has not yet copied "contadores" to
\* its locals when the handler of the sftp and ftp functions runs.
ClaveAusente ==
    /\ pc = "rutas"
    /\ j <= Len(conexion.rutas)
    /\ conexion.rutas[j].dias = SinDias
    /\ IF conexion.tipo = "local"
       THEN /\ acum' = [elim |-> 0, err |-> Len(conexion.rutas)]
            /\ pc' = "retorno"
            /\ totales27' = [elim |-> 0, err |-> Len(conexion.rutas)]
       ELSE /\ ManejarErrorConexion
            /\ totales27' = [totales27 EXCEPT
                                !.err = @ + Len(conexion.rutas)]
    /\ UNCHANGED <<conexiones, acceso, zona, fs, fs0, corrida, i, j, sesion,
                   cierres, por_ruta, resultados, total, ops, avisos, cwd,
                   previas, PARAMIKO_DISPONIBLE, resultados27>>

\* cliente_ssh.close() / sftp.close(); transporte.close() / ftp.quit()
\* after the loop over the rules.  ftp.quit() sends QUIT and closes the
\* socket once it is answered; when it raises, the socket is left as it
\* was and the handler "except ftplib.all_errors" runs.
Cerrar ==
    /\ pc = "rutas"
    /\ j > Len(conexion.rutas)
    /\ conexion.tipo \in Remotos
    /\ cierres' = [cierres EXCEPT ![i] = @ + 1]
    /\ ops' = Append(ops, [c |-> i, r |-> 0, op |-> "close", ruta |-> <<>>,
                           ok |-> acceso[i] # "cae", sudo |-> FALSE])
    /\ IF acceso[i] = "cae"
       THEN /\ sesion' = sesion
            /\ ManejarErrorConexion
            /\ totales27' = [acum EXCEPT !.err = @ + Len(conexion.rutas)]
       ELSE /\ sesion' = [sesion EXCEPT ![i] = "cerrada"]
            /\ pc' = "retorno"
            /\ acum' = acum
            /\ totales27' = acum
    /\ UNCHANGED <<conexiones, acceso, zona, fs, fs0, corrida, i, j,
                   por_ruta, resultados, total, avisos, cwd, previas,
                   PARAMIKO_DISPONIBLE, resultados27>>

\* procesar_conexion returns and eliminar_archivos_antiguos adds the pair
\* to its totals and goes on with the next connection.
Retornar ==
    /\ \/ pc = "retorno"
       \/ pc = "rutas" /\ j > Len(conexion.rutas) /\ conexion.tipo = "local"
    /\ resultados' = Append(resultados, [elim |-> acum.elim, err |-> acum.err,
                                         rutas |-> por_ruta])
    /\ total' = [elim |-> total.elim + acum.elim,
                 err |-> total.err + acum.err]
    /\ resultados27' = Append(resultados27, totales27)
    /\ acum' = Cero
    /\ totales27' = Cero
    /\ por_ruta' = <<>>
    /\ i' = i + 1
    /\ j' = 1
    /\ pc' = IF i + 1 > Len(conexiones) THEN "fin" ELSE "conexion"
    /\ UNCHANGED <<conexiones, acceso, zona, fs, fs0, corrida, sesion, cierres,
                   ops, avisos, cwd, previas, PARAMIKO_DISPONIBLE>>

\* The script is run again, on the backends as the last run left them.
Reejecutar ==
    /\ pc \in {"fin", "abortado"}
    /\ corrida < MaxCorridas
    /\ previas' = Append(previas, [total |-> total, resultados |-> resultados,
                                   ops |-> ops])
    /\ corrida' = corrida + 1
    /\ fs0' = fs
    /\ pc' = "inicio"
    /\ totales27' = Cero
    /\ resultados27' = <<>>
    /\ i' = 1
    /\ j' = 1
    /\ sesion' = [k \in DOMAIN conexiones |-> "ninguna"]
    /\ cierres' = [k \in DOMAIN conexiones |-> 0]
    /\ acum' = Cero
    /\ por_ruta' = <<>>
    /\ resultados' = <<>>
    /\ total' = Cero
    /\ ops' = <<>>
    /\ avisos' = <<>>
    /\ cwd' = [k \in DOMAIN conexiones |-> <<>>]
    /\ UNCHANGED <<conexiones, acceso, zona, fs, PARAMIKO_DISPONIBLE>>

Next ==
    \/ VerificarDependencias
    \/ Conectar
    \/ IniciarLocal
    \/ ProcesarRuta
    \/ ClaveAusente
    \/ Cerrar
    \/ Retornar
    \/ Reejecutar

Spec == Init /\ [][Next]_vars

(***************************************************************************)
(* Vocabulary of the properties.                                          *)
(***************************************************************************)
Fin == pc = "fin"

\* procesar_conexion has returned for connection c in the current run.
Hecha(c) == c \in DOMAIN resultados

\* Rule r of connection c went through its iteration of the loop.
ReglaHecha(c, r) == Hecha(c) /\ r \in DOMAIN resultados[c].rutas

\* The entries of ops issued for rule r of connection c.
OpsDe(c, r) == {n \in DOMAIN ops : ops[n].c = c /\ ops[n].r = r}

\* Delete was invoked on ruta (whatever the outcome) / removed it.
Intentos(c, r, ruta) ==
    {n \in OpsDe(c, r) : ops[n].op = "delete" /\ ops[n].ruta = ruta}
Borrados(c, r, ruta) == {n \in Intentos(c, r, ruta) : ops[n].ok}

\* The age of an entry, "now - modificationTime", in seconds.
Edad(e) == Ahora - e.mtime

\* The files of the tree fsx below ruta.
ArchivosBajo(fsx, ruta) ==
    {e \in fsx : e.clase = "file" /\ EsPrefijo(ruta, e.ruta)}

\* C1: a file under the rule's path whose base name does not match the
\* mask, or whose age is below maxAgeDays days, is never passed to Delete,
\* and no file is deleted more than once during the run of a rule.
C1_SoloCoincidentesAntiguos ==
    \A c \in DOMAIN conexiones : \A r \in DOMAIN conexiones[c].rutas :
        LET regla == conexiones[c].rutas[r]
        IN  \A e \in ArchivosBajo(fs0[c], regla.ruta) :
              /\ (\/ ~PasaMascara(Nombre(e), regla.mascara)
                  \/ Edad(e) < regla.dias * DIA)
                     => Intentos(c, r, e.ruta) = {}
              /\ Cardinality(Borrados(c, r, e.ruta)) <= 1

\* C2: at the end of a run no session is open, and every session that was
\* opened has been closed exactly once.
C2_SesionCerradaUnaVez ==
    Fin => \A c \in DOMAIN conexiones :
              /\ sesion[c] # "abierta"
              /\ sesion[c] = "cerrada" => cierres[c] = 1

\* What procesar_conexion returns for connection c when it is the only
\* connection of the registry.
RECURSIVE AplicarReglas(_, _, _, _)
AplicarReglas(tipo, st, reglas, z) ==
    IF reglas = <<>> THEN st
    ELSE AplicarReglas(tipo, ProcesarRegla(tipo, st, Head(reglas), z),
                       Tail(reglas), z)
\* Connect fails for connection c / its closing command fails.
FalloFatal(c) ==
    conexiones[c].tipo \in Remotos /\ acceso[c] \in {"red", "auth"}
FalloDeCierre(c) == conexiones[c].tipo \in Remotos /\ acceso[c] = "cae"

\* What the connection-level handler adds when the closing command fails.
ErroresDeCierre(c) ==
    IF FalloDeCierre(c) THEN Len(conexiones[c].rutas) ELSE 0

EnSolitario(c) ==
    IF FalloFatal(c)
    THEN [elim |-> 0, err |-> Len(conexiones[c].rutas)]
    ELSE LET st == AplicarReglas(conexiones[c].tipo,
                                 Estado(fs0[c], 0, 0, <<>>),
                                 conexiones[c].rutas, zona)
         IN  [elim |-> st.elim, err |-> st.err + ErroresDeCierre(c)]

DeRegla(c, r) == resultados[c].rutas[r]

RutaInexistente(c, r) == ~Existe(fs0[c], conexiones[c].rutas[r].ruta)

\* The rules of connection c whose path exists, in order.
RECURSIVE Filtrar(_, _)
Filtrar(fsx, reglas) ==
    IF reglas = <<>> THEN <<>>
    ELSE IF Existe(fsx, Head(reglas).ruta)
         THEN <<Head(reglas)>> \o Filtrar(fsx, Tail(reglas))
         ELSE Filtrar(fsx, Tail(reglas))
SinInexistentes(c) ==
    AplicarReglas(conexiones[c].tipo,
                  Estado(fs0[c], 0, 0, <<>>),
                  Filtrar(fs0[c], conexiones[c].rutas), zona)

\* C4: a rule whose path does not exist yields exactly one error, no
\* deletion and no operation beyond the failed probe of its path, and the
\* connection's result is the one of its other rules plus that error.
C4_RutaInexistenteUnError ==
    \A c \in DOMAIN conexiones :
        /\ \A r \in DOMAIN conexiones[c].rutas :
              (ReglaHecha(c, r) /\ RutaInexistente(c, r)) =>
                  /\ DeRegla(c, r) = [elim |-> 0, err |-> 1]
                  /\ \A n \in OpsDe(c, r) :
                        /\ ops[n].ruta = conexiones[c].rutas[r].ruta
                        /\ ~ops[n].ok
        /\ (Hecha(c) /\ ~FalloFatal(c)) =>
              /\ resultados[c].elim = SinInexistentes(c).elim
              /\ resultados[c].err = SinInexistentes(c).err
                    + Cardinality({r \in DOMAIN conexiones[c].rutas :
                                       RutaInexistente(c, r)})
                    + ErroresDeCierre(c)

\* Nothing but a refused Delete can go wrong with the entry e.
Sana(e) == e.fechable /\ ~e.fugaz /\ e.campos >= 9

\* Every native operation under ruta succeeds on the tree fsx.
TodoResponde(fsx, ruta) ==
    /\ SePuedeListar(fsx, ruta)
    /\ \A e \in fsx : EsPrefijo(ruta, e.ruta) =>
          IF e.clase = "dir" THEN e.listable ELSE e.borrable /\ Sana(e)

\* C5: a rule with maxAgeDays = 0 and no mask, whose deletes all succeed,
\* leaves no file under its path, whatever the modification times.
C5_CeroDiasBorraTodo ==
    \A c \in DOMAIN conexiones : \A r \in DOMAIN conexiones[c].rutas :
        LET regla == conexiones[c].rutas[r]
        IN  (/\ ReglaHecha(c, r)
             /\ regla.dias = 0 /\ regla.mascara = SinMascara
             /\ TodoResponde(fs0[c], regla.ruta))
                => ArchivosBajo(fs[c], regla.ruta) = {}

\* C6: a run on the state left by the run before it deletes nothing.
C6_Idempotencia ==
    corrida > 1 =>
        /\ total.elim = 0
        /\ acum.elim = 0
        /\ \A n \in DOMAIN ops : ops[n].op = "delete" => ~ops[n].ok
        /\ fs = fs0
C6_Testigo ==
    /\ corrida = 2 /\ Fin
    /\ previas[1].total.elim > 0
    /\ \E n \in DOMAIN ops : ops[n].op = "delete"

\* C7: when Connect fails, no rule of the connection is attempted, its
\* result is (0, number of its rules), and the next connection follows.
C7_FalloDeConexion ==
    \A c \in DOMAIN conexiones : (Hecha(c) /\ FalloFatal(c)) =>
        /\ resultados[c].elim = 0
        /\ resultados[c].err = Len(conexiones[c].rutas)
        /\ resultados[c].rutas = <<>>
        /\ \A n \in DOMAIN ops : ops[n].c = c => ops[n].op = "connect"
        /\ fs[c] = fs0[c]
        /\ (c < Len(conexiones) /\ Fin) => Hecha(c + 1)
C7_Testigo ==
    /\ Fin
    /\ \E c \in DOMAIN conexiones :
          /\ FalloFatal(c) /\ c < Len(conexiones)
          /\ Len(conexiones[c].rutas) > 1
          /\ \E n \in DOMAIN ops : ops[n].c = c + 1 /\ ops[n].op = "delete"

\* The rule's path and every directory under it can be listed, so that
\* only deletes can fail.
SoloFallanBorrados(fsx, ruta) ==
    /\ SePuedeListar(fsx, ruta)
    /\ \A e \in fsx : EsPrefijo(ruta, e.ruta) =>
          IF e.clase = "dir" THEN e.listable ELSE Sana(e)

FallosDeBorrado(c, r) ==
    {n \in OpsDe(c, r) : ops[n].op = "delete" /\ ~ops[n].ok}
RutasIntentadas(s) ==
    {s[n].ruta : n \in {m \in DOMAIN s : s[m].op = "delete"}}

\* The first rule of connection c on the tree fsx, from the counters at 0.
PrimeraRegla(c, fsx) ==
    ProcesarRegla(conexiones[c].tipo,
                  Estado(fsx, 0, 0, <<>>),
                  conexiones[c].rutas[1], zona)

\* The tree fsx with every file removable.
TodoBorrable(fsx) ==
    {[e EXCEPT !.borrable = (e.clase = "file")] : e \in fsx}

\* C8: each failed Delete adds exactly one error to the rule and nothing
\* to its removed count, and the other marked files are still attempted.
C8_FalloDeBorradoCuenta ==
    \A c \in DOMAIN conexiones : \A r \in DOMAIN conexiones[c].rutas :
        (ReglaHecha(c, r)
           /\ SoloFallanBorrados(fs0[c], conexiones[c].rutas[r].ruta)) =>
            /\ DeRegla(c, r).err = Cardinality(FallosDeBorrado(c, r))
            /\ DeRegla(c, r).elim =
                  Cardinality({n \in OpsDe(c, r) :
                                   ops[n].op = "delete" /\ ops[n].ok})
            /\ r = 1 =>
                  {ops[n].ruta : n \in {m \in OpsDe(c, r) :
                                            ops[m].op = "delete"}}
                    = RutasIntentadas(PrimeraRegla(c, TodoBorrable(fs0[c])).ops)

\* The subdirectories below ruta that are reached and cannot be listed.
SubdirsCerrados(fsx, ruta) ==
    {d \in fsx : /\ d.clase = "dir" /\ ~d.listable
                 /\ EsPrefijo(ruta, d.ruta) /\ d.ruta # ruta
                 /\ \A a \in Ancestros(d, ruta) : SePuedeListar(fsx, a)}

\* The tree fsx without the subtrees of the directories ds.
SinSubarboles(fsx, ds) ==
    {e \in fsx : \A d \in ds : ~EsPrefijo(d.ruta, e.ruta)}

\* C9: in the recursive backends a subdirectory that cannot be listed adds
\* exactly one error, is not passed to Delete, nothing below it is touched,
\* and the rest of the tree is processed as if it were not there.
C9_SubdirectorioIlegible ==
    \A c \in DOMAIN conexiones :
        LET regla == conexiones[c].rutas[1]
            ds == SubdirsCerrados(fs0[c], regla.ruta)
        IN  (/\ ReglaHecha(c, 1)
             /\ conexiones[c].tipo \in {"local", "sftp", "ftp"}
             /\ SePuedeListar(fs0[c], regla.ruta)
             /\ ds # {}
             /\ \A e \in ArchivosBajo(fs0[c], regla.ruta) :
                    e.borrable /\ Sana(e)) =>
                /\ DeRegla(c, 1).err = Cardinality(ds)
                /\ \A d \in ds : Intentos(c, 1, d.ruta) = {}
                /\ \A d \in ds : \A n \in OpsDe(c, 1) :
                      EsPrefijo(d.ruta, ops[n].ruta) => ops[n].ruta = d.ruta
                /\ {ops[n].ruta : n \in {m \in OpsDe(c, 1) :
                                             ops[m].op = "delete"}}
                     = RutasIntentadas(
                           PrimeraRegla(c, SinSubarboles(fs0[c], ds)).ops)

\* Every native operation of connection c succeeds in the current run.
SinFallos(c) ==
    /\ ~FalloFatal(c) /\ ~FalloDeCierre(c)
    /\ \A r \in DOMAIN conexiones[c].rutas :
          TodoResponde(fs0[c], conexiones[c].rutas[r].ruta)

\* C10: two backends given the same tree, clock and rules, all of whose
\* native operations succeed, delete the same files and return the same
\* pair.
C10_BackendsEquivalentes ==
    \A a, b \in DOMAIN conexiones :
        (/\ Hecha(a) /\ Hecha(b)
         /\ conexiones[a].rutas = conexiones[b].rutas
         /\ fs0[a] = fs0[b]
         /\ SinFallos(a) /\ SinFallos(b)) =>
            /\ fs[a] = fs[b]
            /\ resultados[a].elim = resultados[b].elim
            /\ resultados[a].err = resultados[b].err

\* The paths of a set of entries.
Rutas(es) == {e.ruta : e \in es}

\* C11: an ssh rule with a reachable path, no mask and every rm succeeding
\* removes exactly the files under its path whose age is at least
\* maxAgeDays days, and returns (number of such files, 0).
C11_SshEdadEnDias ==
    \A c \in DOMAIN conexiones :
        LET regla == conexiones[c].rutas[1]
            viejos == {e \in ArchivosBajo(fs0[c], regla.ruta) :
                          Edad(e) >= regla.dias * DIA}
        IN  (/\ ReglaHecha(c, 1)
             /\ conexiones[c].tipo = "ssh"
             /\ regla.dias > 0 /\ regla.mascara = SinMascara
             /\ TodoResponde(fs0[c], regla.ruta)) =>
                /\ Rutas(ArchivosBajo(fs0[c], regla.ruta))
                      \ Rutas(ArchivosBajo(fs[c], regla.ruta)) = Rutas(viejos)
                /\ DeRegla(c, 1) = [elim |-> Cardinality(viejos), err |-> 0]

\* The Connect calls of connection c in the current run.
ConnectsDe(c) == {n \in DOMAIN ops : ops[n].c = c /\ ops[n].op = "connect"}

\* C12: a remote connection is connected to exactly once, and every other
\* operation of its rules comes after that one successful Connect.
C12_UnaSesionPorConexion ==
    \A c \in DOMAIN conexiones : conexiones[c].tipo \in Remotos =>
        /\ Cardinality(ConnectsDe(c)) <= 1
        /\ Hecha(c) => Cardinality(ConnectsDe(c)) = 1
        /\ \A n \in DOMAIN ops :
              (ops[n].c = c /\ ops[n].op # "connect") =>
                  \E m \in ConnectsDe(c) : m < n /\ ops[m].ok
C12_Testigo ==
    /\ Fin
    /\ \E c \in DOMAIN conexiones :
          /\ conexiones[c].tipo \in Remotos
          /\ Len(conexiones[c].rutas) = 2
          /\ \E n \in OpsDe(c, 1) : ops[n].op = "delete"
          /\ OpsDe(c, 2) # {}
          /\ \E n \in DOMAIN ops : ops[n].c = c /\ ops[n].op = "close"

\* C13: at most one session is open at any time, and when Connect is
\* invoked for a connection the session of the one before it is not open.
C13_UnaSesionAbierta ==
    /\ Cardinality({c \in DOMAIN conexiones : sesion[c] = "abierta"}) <= 1
    /\ \A n \in DOMAIN ops :
          (ops[n].op = "connect" /\ ops[n].c > 1) =>
              sesion[ops[n].c - 1] # "abierta"

\* The sum of the field campo over the sequence of pairs s.
RECURSIVE Suma(_, _)
Suma(s, campo) ==
    IF s = <<>> THEN 0 ELSE Head(s)[campo] + Suma(Tail(s), campo)

\* The per-rule results of connection c: the pairs of the rules that went
\* through the loop, and (0, 1) for each rule when Connect failed.
ResultadosPorRegla(c) ==
    IF FalloFatal(c)
    THEN [r \in DOMAIN conexiones[c].rutas |-> [elim |-> 0, err |-> 1]]
    ELSE resultados[c].rutas

\* C14: at the end of a run the totals are the sums of the results of the
\* connections, and the result of each connection is the sum of the
\* results of its rules.
C14_Agregacion ==
    Fin =>
        /\ total.elim = Suma(resultados, "elim")
        /\ total.err = Suma(resultados, "err")
        /\ \A c \in DOMAIN conexiones :
              /\ resultados[c].elim = Suma(ResultadosPorRegla(c), "elim")
              /\ resultados[c].err = Suma(ResultadosPorRegla(c), "err")

\* The capability warnings recorded for connection c.
AvisosDeCapacidad(c) ==
    {n \in DOMAIN avisos : avisos[n].c = c /\ avisos[n].aviso = "capacidad"}

\* C15: a local, sftp or ftp connection with necesita_sudo set returns what
\* it returns without the flag, and one capability warning is recorded
\* for it.
C15_SudoSinSoporte ==
    \A c \in DOMAIN conexiones :
        (/\ Hecha(c)
         /\ conexiones[c].tipo \in {"local", "sftp", "ftp"}
         /\ conexiones[c].necesita_sudo) =>
            /\ resultados[c].elim = EnSolitario(c).elim
            /\ resultados[c].err = EnSolitario(c).err
            /\ Cardinality(AvisosDeCapacidad(c)) = 1

\* C16: no traversal comes back to a directory whose listing it is still
\* processing, so the depth of the recursion is bounded by the tree.
C16_RecorridoTermina == pc # "recursion"

\* C17: in the local, sftp and ftp backends, with maxAgeDays > 0, a file
\* that matches the mask is passed to Delete if and only if its age is at
\* least maxAgeDays * 86400 seconds.
C17_UmbralDeEdad ==
    \A c \in DOMAIN conexiones :
        LET regla == conexiones[c].rutas[1]
        IN  (/\ ReglaHecha(c, 1)
             /\ conexiones[c].tipo \in {"local", "sftp", "ftp"}
             /\ regla.dias > 0
             /\ SoloFallanBorrados(fs0[c], regla.ruta)) =>
                \A e \in ArchivosBajo(fs0[c], regla.ruta) :
                    PasaMascara(Nombre(e), regla.mascara) =>
                        (Intentos(c, 1, e.ruta) # {}
                            <=> Edad(e) >= regla.dias * DIA)

\* C18: Delete is invoked only on entries that are files.
C18_SoloArchivos ==
    \A n \in DOMAIN ops : ops[n].op = "delete" =>
        \E e \in fs0[ops[n].c] : e.ruta = ops[n].ruta /\ e.clase = "file"

\* C19: between the rules of an FTP connection the working directory of
\* its session is the one in effect before its first rule, the login
\* directory.
C19_FtpDirectorioDeTrabajo ==
    \A c \in DOMAIN conexiones :
        conexiones[c].tipo = "ftp" => cwd[c] = <<>>

\* C20: an ssh rule whose find ends with a status other than 0 has one
\* command error in its error count, besides the failed deletes.
C20_FindFallidoCuenta ==
    \A c \in DOMAIN conexiones : \A r \in DOMAIN conexiones[c].rutas :
        (/\ ReglaHecha(c, r)
         /\ conexiones[c].tipo = "ssh"
         /\ \E n \in OpsDe(c, r) : ops[n].op = "find" /\ ~ops[n].ok) =>
            DeRegla(c, r).err = 1 + Cardinality(FallosDeBorrado(c, r))

\* The Delete operations of rule r of connection c.
Deletes(c, r) == {n \in OpsDe(c, r) : ops[n].op = "delete"}

\* Rule r of connection c went past its probe.
ProbeOk(c, r) == \E n \in OpsDe(c, r) : ops[n].op = "probe" /\ ops[n].ok

\* C24: an ssh rule whose probe succeeded issues exactly one rm per path
\* that find returned and none on a blank line, so its removed plus its
\* errored files are as many as the paths; with no path it issues no rm
\* and contributes (0, 0).
C24_UnRmPorRuta ==
    \A c \in DOMAIN conexiones :
        LET regla == conexiones[c].rutas[1]
            encontrados == Rutas(ComandoFind(fs0[c], regla.ruta,
                                             regla.mascara, regla.dias))
        IN  (/\ ReglaHecha(c, 1)
             /\ conexiones[c].tipo = "ssh"
             /\ ProbeOk(c, 1)) =>
                /\ {ops[n].ruta : n \in Deletes(c, 1)} = encontrados
                /\ Cardinality(Deletes(c, 1)) = Cardinality(encontrados)
                /\ DeRegla(c, 1).elim + DeRegla(c, 1).err
                      = Cardinality(encontrados)
                /\ encontrados = {} => DeRegla(c, 1) = Cero
C24_Testigo ==
    \E c \in DOMAIN conexiones :
        /\ ReglaHecha(c, 1) /\ conexiones[c].tipo = "ssh"
        /\ Cardinality(Deletes(c, 1)) >= 2
        /\ DeRegla(c, 1).err > 0 /\ DeRegla(c, 1).elim > 0

\* C25: every command of an ssh connection carries the sudo prefix when
\* necesita_sudo is set, and none does when it is not.
C25_PrefijoSudo ==
    \A n \in DOMAIN ops :
        (conexiones[ops[n].c].tipo = "ssh"
            /\ ops[n].op \in {"probe", "find", "delete"}) =>
                ops[n].sudo = conexiones[ops[n].c].necesita_sudo
C25_Testigo ==
    \E c \in DOMAIN conexiones :
        /\ ReglaHecha(c, 1) /\ conexiones[c].tipo = "ssh"
        /\ conexiones[c].necesita_sudo
        /\ \A o \in {"probe", "find", "delete"} :
              \E n \in OpsDe(c, 1) : ops[n].op = o /\ ops[n].sudo

\* C26: within a rule at most one Delete is issued per path and at most
\* one listing per directory, and a connection is connected to at most
\* once in a run.
C26_SinReintentos ==
    \A c \in DOMAIN conexiones :
        /\ Cardinality(ConnectsDe(c)) <= 1
        /\ \A r \in DOMAIN conexiones[c].rutas :
              \A n, m \in OpsDe(c, r) :
                  (/\ ops[n].op = ops[m].op
                   /\ ops[n].op \in {"delete", "list"}
                   /\ ops[n].ruta = ops[m].ruta) => n = m

\* The failed per-file and per-subtree operations of connection c.
FallosPorEntrada(c) ==
    {n \in DOMAIN ops : /\ ops[n].c = c /\ ~ops[n].ok
                         /\ ops[n].op \in {"delete", "mtime", "list"}}

\* C28: the errors of a connection that connected are at most one per rule
\* plus one per failed per-file or per-subtree operation.
C28_UnErrorPorRegla ==
    \A c \in DOMAIN conexiones : (Hecha(c) /\ ~FalloFatal(c)) =>
        resultados[c].err
            <= Len(conexiones[c].rutas) + Cardinality(FallosPorEntrada(c))

\* The paths on which rule r of connection c issued some operation.
RutasTocadas(c, r) == {ops[n].ruta : n \in OpsDe(c, r)}

\* The paths on which rule 1 of connection c issues a Delete.
RutasBorradas(c) == {ops[n].ruta : n \in Deletes(c, 1)}

\* The files under ruta whose line in the LIST reply is malformed.
Cortas(fsx, ruta) == {e \in ArchivosBajo(fsx, ruta) : e.campos < 9}

\* C21: on ftp a malformed listing line is skipped and adds exactly one
\* error to the rule, and the other lines are processed as if it were not
\* there.
C21_LineaMalformada ==
    \A c \in DOMAIN conexiones :
        LET regla == conexiones[c].rutas[1]
            cortas == Cortas(fs0[c], regla.ruta)
        IN  (/\ ReglaHecha(c, 1)
             /\ conexiones[c].tipo = "ftp"
             /\ cortas # {}
             /\ TodoResponde(fs0[c] \ cortas, regla.ruta)) =>
                /\ Rutas(cortas) \cap RutasTocadas(c, 1) = {}
                /\ DeRegla(c, 1).err = Cardinality(cortas)
                /\ RutasBorradas(c)
                     = RutasIntentadas(PrimeraRegla(c, fs0[c] \ cortas).ops)

\* The files whose modification-time query failed in rule 1 of c.
SinFecha(c) ==
    {e \in ArchivosBajo(fs0[c], conexiones[c].rutas[1].ruta) :
        \E n \in OpsDe(c, 1) :
            ops[n].op = "mtime" /\ ops[n].ruta = e.ruta /\ ~ops[n].ok}

\* C22: on local and ftp a file whose modification-time query fails is
\* not deleted and adds exactly one error, and the other entries are
\* processed as if it were not there.
C22_FalloDeFechaCuenta ==
    \A c \in DOMAIN conexiones :
        LET regla == conexiones[c].rutas[1]
        IN  (/\ ReglaHecha(c, 1)
             /\ conexiones[c].tipo \in {"local", "ftp"}
             /\ SinFecha(c) # {}
             /\ TodoResponde(fs0[c] \ SinFecha(c), regla.ruta)) =>
                /\ \A e \in SinFecha(c) : Intentos(c, 1, e.ruta) = {}
                /\ DeRegla(c, 1).err = Cardinality(SinFecha(c))
                /\ RutasBorradas(c)
                     = RutasIntentadas(
                           PrimeraRegla(c, fs0[c] \ SinFecha(c)).ops)

\* The files that another actor removed between their marking and their
\* Delete in rule 1 of c.
Fugaces(c) ==
    {e \in ArchivosBajo(fs0[c], conexiones[c].rutas[1].ruta) :
        e.fugaz /\ Intentos(c, 1, e.ruta) # {}}

\* C23: a file removed by another actor before its Delete is issued
\* counts as one error and not as removed: the removed count of the rule
\* is the number of files that its own Deletes removed.
C23_BorradoConcurrente ==
    \A c \in DOMAIN conexiones :
        LET regla == conexiones[c].rutas[1]
        IN  (/\ ReglaHecha(c, 1)
             /\ Fugaces(c) # {}
             /\ TodoResponde(fs0[c] \ Fugaces(c), regla.ruta)) =>
                /\ DeRegla(c, 1).err = Cardinality(Fugaces(c))
                /\ DeRegla(c, 1).elim =
                      Cardinality({e \in ArchivosBajo(fs0[c], regla.ruta) :
                                      ~e.fugaz /\ Borrados(c, 1, e.ruta) # {}})

\* The Deletes of connection c that succeeded in the current run.
DeletesLogrados(c) ==
    {n \in DOMAIN ops : ops[n].c = c /\ ops[n].op = "delete" /\ ops[n].ok}

\* C27: whatever way procesar_conexion returns for a connection, in
\* limpieza.py and in limpieza_2.7.py, the removed count it returns is the
\* number of Deletes that succeeded on that connection in the run.
C27_BorradosNoSePierden ==
    \A c \in DOMAIN conexiones :
        Hecha(c) =>
            /\ resultados[c].elim = Cardinality(DeletesLogrados(c))
            /\ resultados27[c].elim = Cardinality(DeletesLogrados(c))

\* C29: limpieza_2.7.py returns for every sftp and ftp connection the
\* pair (removed, errored) that limpieza.py returns for it.
C29_VariantesEquivalentes ==
    \A c \in DOMAIN conexiones :
        (Hecha(c) /\ conexiones[c].tipo \in {"sftp", "ftp"}) =>
            /\ resultados27[c].elim = resultados[c].elim
            /\ resultados27[c].err = resultados[c].err

\* A connection needs paramiko and it is not installed.
FaltaParamiko == necesita_paramiko /\ ~PARAMIKO_DISPONIBLE

\* C30: when a connection needs paramiko and it is missing, no
\* connection is processed, no operation is issued and no totals are
\* produced; otherwise the connections are processed once each, in the
\* order of the registry, and all of them by the end of the run.
C30_DependenciasOTodas ==
    /\ FaltaParamiko =>
          /\ pc \in {"inicio", "abortado"}
          /\ ops = <<>>
          /\ resultados = <<>>
          /\ total = Cero
          /\ fs = fs0
    /\ ~FaltaParamiko =>
          /\ pc # "abortado"
          /\ \A n \in 1..(Len(ops) - 1) : ops[n].c <= ops[n + 1].c
          /\ \A c \in DOMAIN conexiones : Cardinality(ConnectsDe(c)) <= 1
          /\ pc \in {"conexion", "rutas", "retorno", "recursion"} =>
                i = Len(resultados) + 1
          /\ Fin => Len(resultados) = Len(conexiones)
C30_Testigo ==
    /\ pc = "abortado"
    /\ Len(conexiones) = 2
    /\ conexiones[1].tipo \in {"local", "ftp"}
    /\ conexiones[2].tipo \in {"ssh", "sftp"}

====
